---- MODULE Spec2Model ----
(***************************************************************************)
(* Model of the JobMateAI skill-matching core (backend/routers/            *)
(* job_scanner.py), of the translation lookup it uses (backend/utils/      *)
(* translations.py) and of the skill extractors (backend/utils/            *)
(* ai_client.py, backend/utils/file_parser.py).                            *)
(*                                                                         *)
(* Strings are sequences of one-character strings, so that lower(),        *)
(* strip(), split() and join() are computed and not assumed.  Scores are   *)
(* integers in hundredths of a percent point: 3333 stands for 33.33.       *)
(***************************************************************************)
EXTENDS Integers, Sequences, FiniteSets, TLC

\* ------------------------------------------------------------------------
\* Bounds of the model
\* ------------------------------------------------------------------------

\* number of list entries of a job dictionary, over all its categories
MaxJobEntries == 3

\* number of list entries of a candidate dictionary, over all its categories
MaxCvEntries == 2

\* length of the text given to the skill extractors
MaxTextLen == 3

\* number of skills of the job whose cards are filled to their caps
MaxJobSkills == 6

\* length of the longest entry of a list given to normalize_skills
MaxSkillLen == 4

\* number of entries of a list given to normalize_skills
MaxListLen == 2

\* ------------------------------------------------------------------------
\* Strings
\* ------------------------------------------------------------------------

IsSpace(c) == c \in {" ", "\t"}

\* str.lower(), one character
LowerChar(c) ==
    CASE c = "P" -> "p"
      [] c = "C" -> "c"
      [] c = "R" -> "r"
      [] c = "D" -> "d"
      [] c = "E" -> "e"
      [] c = "N" -> "n"
      [] OTHER -> c

\* str.lower()
lower(s) == [i \in 1..Len(s) |-> LowerChar(s[i])]

RECURSIVE lstrip(_)
lstrip(s) ==
    IF s = <<>> THEN <<>>
    ELSE IF IsSpace(Head(s)) THEN lstrip(Tail(s)) ELSE s

RECURSIVE rstrip(_)
rstrip(s) ==
    IF s = <<>> THEN <<>>
    ELSE IF IsSpace(s[Len(s)]) THEN rstrip(SubSeq(s, 1, Len(s) - 1)) ELSE s

\* str.strip()
strip(s) == rstrip(lstrip(s))

RECURSIVE TakeWord(_)
TakeWord(s) ==
    IF s = <<>> \/ IsSpace(Head(s)) THEN <<>>
    ELSE <<Head(s)>> \o TakeWord(Tail(s))

\* str.split(): the maximal runs of non-whitespace characters
RECURSIVE split(_)
split(s) ==
    LET t == lstrip(s) IN
    IF t = <<>> THEN <<>>
    ELSE LET w == TakeWord(t) IN
         <<w>> \o split(SubSeq(t, Len(w) + 1, Len(t)))

\* ' '.join(words)
RECURSIVE join(_)
join(ws) ==
    IF ws = <<>> THEN <<>>
    ELSE IF Len(ws) = 1 THEN ws[1]
    ELSE ws[1] \o <<" ">> \o join(Tail(ws))

\* ------------------------------------------------------------------------
\* Skill dictionaries
\* ------------------------------------------------------------------------

\* the keys job_match and extract_skills_from_text give a skill dictionary
Categories == {"skills", "technologies", "soft_skills"}

\* a list entry: a Python str, or any other object (None, a number, ...)
Str(chars) == [str |-> TRUE, chars |-> chars]
NonStr == [str |-> FALSE, chars |-> <<>>]

\* a category value: a Python list, or another object
List(items) == [kind |-> "list", items |-> items]

\* a category value that is not iterable: None, a number
NotIterable == [kind |-> "none", items |-> <<>>]

\* a category value that is a string: iterating it gives its characters
StringValue(chars) ==
    [kind |-> "str", items |-> [i \in 1..Len(chars) |-> Str(<<chars[i]>>)]]

\* bool(x) of a list entry: the empty string is falsy; the model's
\* non-string object is skipped by the isinstance test whatever its truth
Truthy(e) == e.str /\ e.chars # <<>>

RECURSIVE SeqSum(_)
SeqSum(s) == IF s = <<>> THEN 0 ELSE Head(s) + SeqSum(Tail(s))

\* the categories in the iteration order of a dictionary built with the
\* keys skills, technologies, soft_skills
CategoryOrder == <<"skills", "technologies", "soft_skills">>

Range(s) == {s[i] : i \in 1..Len(s)}

\* ------------------------------------------------------------------------
\* Normalizer and scorer
\* ------------------------------------------------------------------------

\* str.strip(' ')
RECURSIVE StripSpaces(_)
StripSpaces(s) ==
    IF s = <<>> THEN <<>>
    ELSE IF Head(s) = " " THEN StripSpaces(Tail(s))
    ELSE IF s[Len(s)] = " " THEN StripSpaces(SubSeq(s, 1, Len(s) - 1))
    ELSE s

\* re.sub(r'\s+', ' ', s)
RECURSIVE CollapseRuns(_)
CollapseRuns(s) ==
    IF s = <<>> THEN <<>>
    ELSE IF IsSpace(Head(s)) THEN <<" ">> \o CollapseRuns(lstrip(s))
    ELSE <<Head(s)>> \o CollapseRuns(Tail(s))

\* variant: only blanks are trimmed, then the whitespace runs are collapsed
normalize_skills_trim_blanks(skills) ==
    { CollapseRuns(StripSpaces(lower(e.chars))) : e \in {x \in Range(skills) : Truthy(x)} }
        \ {<<>>}

\* variant: the case of the entries is kept
normalize_skills_keep_case(skills) ==
    { join(split(strip(e.chars))) : e \in {x \in Range(skills) : Truthy(x)} }
        \ {<<>>}

\* normalize_skills: the set of the lowercased, stripped, whitespace-collapsed
\* strings of a list; falsy and non-string entries and entries that
\* normalize to the empty string are skipped
normalize_skills(skills) ==
    { join(split(strip(lower(e.chars)))) : e \in {x \in Range(skills) : Truthy(x)} }
        \ {<<>>}

\* the guard of both loops of calculate_match_score:
\* "if not skills or not isinstance(skills, list)" gives the empty set
NormalizedCategory(v) ==
    IF v.kind # "list" \/ v.items = <<>> THEN {} ELSE normalize_skills(v.items)

\* dict.get(category, [])
Get(d, c) == IF c \in DOMAIN d THEN d[c] ELSE List(<<>>)

\* round(x, 2) of x = 100 * m / r, in hundredths, ties to even
RoundHundredths(m, r) ==
    LET q   == (10000 * m) \div r
        rem == (10000 * m) % r
    IN  IF 2 * rem < r THEN q
        ELSE IF 2 * rem > r THEN q + 1
        ELSE IF q % 2 = 0 THEN q ELSE q + 1

\* the job's normalized skills per category (first loop)
JobSkillsNormalized(job) == [c \in DOMAIN job |-> NormalizedCategory(job[c])]

\* variant: every category of the job is compared with the candidate's
\* "skills" list
CvSkillsNormalizedSkillsOnly(job, cv) ==
    [c \in DOMAIN job |-> NormalizedCategory(Get(cv, "skills"))]

\* the candidate's normalized skills in the job's categories (second loop)
CvSkillsNormalized(job, cv) == [c \in DOMAIN job |-> NormalizedCategory(Get(cv, c))]

\* the categories of d in iteration order
Keys(d) == SelectSeq(CategoryOrder, LAMBDA c : c \in DOMAIN d)

\* total_required after the third loop
TotalRequired(job) ==
    LET jn == JobSkillsNormalized(job)
        ks == Keys(job)
    IN  SeqSum([i \in 1..Len(ks) |-> Cardinality(jn[ks[i]])])

\* variant: the job's raw entries are counted, not its normalized set
TotalMatchedRawEntries(job, cv) ==
    LET cn == CvSkillsNormalized(job, cv)
        ks == Keys(job)
    IN  SeqSum([i \in 1..Len(ks) |->
            Len(SelectSeq(job[ks[i]].items,
                          LAMBDA e : normalize_skills(<<e>>) \cap cn[ks[i]] # {}))])

\* variant: a job skill matches a candidate skill of any category
TotalMatchedAnyCategory(job, cv) ==
    LET jn == JobSkillsNormalized(job)
        ks == Keys(job)
        cvAll == UNION {NormalizedCategory(cv[c]) : c \in DOMAIN cv}
    IN  SeqSum([i \in 1..Len(ks) |-> Cardinality(jn[ks[i]] \cap cvAll)])

\* total_matched after the third loop
TotalMatched(job, cv) ==
    LET jn == JobSkillsNormalized(job)
        cn == CvSkillsNormalized(job, cv)
        ks == Keys(job)
    IN  SeqSum([i \in 1..Len(ks) |-> Cardinality(jn[ks[i]] \cap cn[ks[i]])])

\* variant: the mean of the per-category percentages
calculate_match_score_macro(job, cv) ==
    LET jn == JobSkillsNormalized(job)
        cn == CvSkillsNormalized(job, cv)
        ks == SelectSeq(Keys(job), LAMBDA c : jn[c] # {})
    IN  IF ks = <<>> THEN 0
        ELSE SeqSum([i \in 1..Len(ks) |->
                 RoundHundredths(Cardinality(jn[ks[i]] \cap cn[ks[i]]),
                                 Cardinality(jn[ks[i]]))]) \div Len(ks)

\* variant: a job without required skills counts as fully covered
calculate_match_score_noguard(job, cv) ==
    IF TotalRequired(job) = 0 THEN 10000
    ELSE RoundHundredths(TotalMatched(job, cv), TotalRequired(job))

\* calculate_match_score, in hundredths
calculate_match_score(job, cv) ==
    IF DOMAIN job = {} \/ DOMAIN cv = {} THEN 0
    ELSE IF TotalRequired(job) = 0 THEN 0
    ELSE RoundHundredths(TotalMatched(job, cv), TotalRequired(job))

\* ------------------------------------------------------------------------
\* Suggestion generator
\* ------------------------------------------------------------------------

\* variant: a cap one lower
MaxSuggestionsOneLess == 5 - 1

\* the cap of the returned list: suggestions[:5]
MaxSuggestions == 5

\* the cap of the items of a card: [:5]
MaxItems == 5

\* variant: one more missing skill is taken
MaxRelatedOneMore == 2 + 1

\* the number of missing skills the skills_to_learn card takes: [:2]
MaxRelated == 2

\* s[:n]
Take(s, n) == SubSeq(s, 1, IF Len(s) < n THEN Len(s) ELSE n)

\* "for s in v" / "s.lower()" raise for a value that is not iterable and for
\* an entry that is not a string
LoweringRaises(d) ==
    \E c \in DOMAIN d :
        \/ d[c].kind = "none"
        \/ \E e \in Range(d[c].items) : ~e.str

\* set(d_lower.get(category, [])) for d_lower = {k: [s.lower() for s in v]}
LowerSet(d, c) ==
    IF c \in DOMAIN d THEN {lower(e.chars) : e \in Range(d[c].items)} ELSE {}

\* list(S): the elements of a set in one of its iteration orders
Perms(S) ==
    {f \in [1..Cardinality(S) -> S] : \A i, j \in 1..Cardinality(S) : f[i] = f[j] => i = j}

\* the lists that extending by list(S) for each S of sets, in turn, can build
RECURSIVE ExtendAll(_)
ExtendAll(sets) ==
    IF sets = <<>> THEN {<<>>}
    ELSE {a \o b : a \in Perms(Head(sets)), b \in ExtendAll(Tail(sets))}

\* variant: the soft skills the candidate lacks are left out
MissingListsWithoutSoftSkills(job, cv) ==
    ExtendAll([i \in 1..2 |->
        LowerSet(job, CategoryOrder[i]) \ LowerSet(cv, CategoryOrder[i])])

\* missing_skills: per category, the job's skills the candidate lacks
MissingLists(job, cv) ==
    ExtendAll([i \in 1..3 |->
        LowerSet(job, CategoryOrder[i]) \ LowerSet(cv, CategoryOrder[i])])

\* strong_skills: the candidate's skills and technologies the job lacks
StrongLists(job, cv) ==
    ExtendAll([i \in 1..2 |->
        LowerSet(cv, CategoryOrder[i]) \ LowerSet(job, CategoryOrder[i])])

\* matched_skills: per category, the skills both have
MatchedLists(job, cv) ==
    ExtendAll([i \in 1..3 |->
        LowerSet(job, CategoryOrder[i]) \cap LowerSet(cv, CategoryOrder[i])])

Item(text, action) == [text |-> text, action |-> action]

Card(id, priority, category, items) ==
    [id |-> id, priority |-> priority, category |-> category, items |-> items]

Items(skills, action) == [i \in 1..Len(skills) |-> Item(skills[i], action)]

MissingSkillsCard(missing) ==
    Card("missing_skills", 1, "skills", Items(Take(missing, MaxItems), "add"))

SkillsToHighlightCard(strong) ==
    Card("skills_to_highlight", 1, "highlight", Items(Take(strong, MaxItems), "highlight"))

MatchingSkillsCard(matched) ==
    Card("matching_skills", 2, "matching", Items(Take(matched, MaxItems), "highlight"))

\* f"Learn {skill}"
SkillsToLearnCard(related) ==
    Card("skills_to_learn", 2, "learning",
         [i \in 1..Len(related) |-> Item(<<"Learn ">> \o related[i], "suggest")])

ProfileEnhancementCard ==
    Card("profile_enhancement", 3, "suggestion",
         << Item(<<"Add project examples">>, "suggest"),
            Item(<<"Include specific achievements">>, "suggest"),
            Item(<<"Highlight relevant experience">>, "suggest"),
            Item(<<"Add metrics to quantify impact">>, "suggest"),
            Item(<<"Include relevant certifications">>, "suggest") >>)

\* variant: one card for each missing skill and each skill to learn
AssembledPerSkill(missing, strong, matched) ==
    [i \in 1..Len(missing) |-> MissingSkillsCard(<<missing[i]>>)]
    \o (IF strong # <<>> THEN <<SkillsToHighlightCard(strong)>> ELSE <<>>)
    \o (IF matched # <<>> THEN <<MatchingSkillsCard(matched)>> ELSE <<>>)
    \o [i \in 1..Len(Take(missing, MaxRelated)) |-> SkillsToLearnCard(<<missing[i]>>)]
    \o <<ProfileEnhancementCard>>

\* the list before the sort
Assembled(missing, strong, matched) ==
    LET related == IF missing # <<>> THEN Take(missing, MaxRelated) ELSE <<>> IN
    (IF missing # <<>> THEN <<MissingSkillsCard(missing)>> ELSE <<>>)
    \o (IF strong # <<>> THEN <<SkillsToHighlightCard(strong)>> ELSE <<>>)
    \o (IF matched # <<>> THEN <<MatchingSkillsCard(matched)>> ELSE <<>>)
    \o (IF related # <<>> THEN <<SkillsToLearnCard(related)>> ELSE <<>>)
    \o <<ProfileEnhancementCard>>

\* insertion of x after the last element whose key is not greater
RECURSIVE InsertByPriority(_, _)
InsertByPriority(x, s) ==
    IF s = <<>> THEN <<x>>
    ELSE IF s[Len(s)].priority <= x.priority THEN Append(s, x)
    ELSE Append(InsertByPriority(x, SubSeq(s, 1, Len(s) - 1)), s[Len(s)])

\* variant: a stable sort by descending priority
RECURSIVE SortDescending(_)
SortDescending(s) ==
    IF s = <<>> THEN <<>>
    ELSE LET rest == SortDescending(Tail(s))
             hi == SelectSeq(rest, LAMBDA y : y.priority > Head(s).priority)
             lo == SelectSeq(rest, LAMBDA y : y.priority <= Head(s).priority)
         IN  hi \o <<Head(s)>> \o lo

\* suggestions.sort(key=lambda x: x["priority"]): ascending and stable
RECURSIVE SortByPriority(_)
SortByPriority(s) ==
    IF s = <<>> THEN <<>>
    ELSE InsertByPriority(s[Len(s)], SortByPriority(SubSeq(s, 1, Len(s) - 1)))

\* variant: per-skill cards and no cut of the returned list
generate_improvement_suggestions_per_skill(job, cv) ==
    { SortByPriority(AssembledPerSkill(ms, ss, mt)) :
        ms \in MissingLists(job, cv), ss \in StrongLists(job, cv),
        mt \in MatchedLists(job, cv) }

\* generate_improvement_suggestions: the lists it can return, one for each
\* iteration order of the sets it turns into lists
generate_improvement_suggestions(job, cv) ==
    { Take(SortByPriority(Assembled(ms, ss, mt)), MaxSuggestions) :
        ms \in MissingLists(job, cv), ss \in StrongLists(job, cv),
        mt \in MatchedLists(job, cv) }

\* ------------------------------------------------------------------------
\* Inputs of a matching request
\* ------------------------------------------------------------------------

\* the entries of the job's lists: "p", "r", the capitalized and indented
\* " P", and a blank string
JobPool == <<Str(<<"p">>), Str(<<"r">>), Str(<<" ", "P">>), Str(<<" ">>)>>

\* the entries of the candidate's lists
CvPool == <<Str(<<"p">>), Str(<<"d">>)>>

\* the lists of k different entries of pool, up to the order of the entries:
\* job_match builds its lists from sets, and both functions turn every list
\* into a set before they use it
ListsOf(pool, k) ==
    { [i \in 1..k |-> pool[f[i]]] :
        f \in {g \in [1..k -> 1..Len(pool)] :
                 \A i \in 1..k, j \in 1..k : i < j => g[i] < g[j]} }

\* the dictionaries with the keys cats (a sequence) whose lists hold at most
\* n entries of pool altogether
RECURSIVE DictsWithKeys(_, _, _)
DictsWithKeys(cats, pool, n) ==
    IF cats = <<>> THEN {<<>>}
    ELSE UNION { { (Head(cats) :> List(l)) @@ d :
                     l \in ListsOf(pool, k),
                     d \in DictsWithKeys(Tail(cats), pool, n - k) }
                 : k \in 0..n }

DictsOver(domains, pool, n) ==
    UNION { DictsWithKeys(SelectSeq(CategoryOrder, LAMBDA c : c \in D), pool, n)
            : D \in domains }

\* the key sets of the job dictionaries whose categories are independent
JobDomains == {{}, {"technologies"}, {"technologies", "soft_skills"}}

\* the key sets of the candidate dictionaries
CvDomains == {{}, {"technologies"}, Categories}

\* a dictionary as extract_skills_from_text returns it: the list of the
\* technologies is also the list of the skills
WithSkillsKey(d) == ("skills" :> d["technologies"]) @@ d

JobDicts ==
    DictsOver(JobDomains, JobPool, MaxJobEntries)
        \cup { WithSkillsKey(d) :
                 d \in DictsWithKeys(<<"technologies", "soft_skills">>, JobPool,
                                     MaxJobEntries) }

CvDicts == DictsOver(CvDomains, CvPool, MaxCvEntries)

\* the names of the skills of a job with many skills
SkillNames == <<"a", "b", "e", "f", "g", "h", "i", "j">>

\* the list of the first k of them
NamedSkills(k) ==
    [i \in 1..(IF k < Len(SkillNames) THEN k ELSE Len(SkillNames)) |->
        Str(<<SkillNames[i]>>)]

\* jobs that require up to MaxJobSkills technologies
ManySkillsJobs ==
    { ("technologies" :> List(NamedSkills(k))) : k \in 0..MaxJobSkills }

\* candidates who have none, one or two of them
FewSkillsCvs ==
    { ("technologies" :> List(NamedSkills(k))) : k \in 0..2 }

\* the values of a category of a dictionary that may be malformed
CategoryValues ==
    { List(<<>>), List(<<Str(<<"p">>)>>), List(<<Str(<<"p">>), Str(<<"r">>)>>),
      List(<<Str(<<"d">>)>>), NotIterable, StringValue(<<"p", "r">>) }

\* the dictionaries with the keys technologies and soft_skills and any of
\* these values
MalformedDicts ==
    { ("technologies" :> t) @@ ("soft_skills" :> f) :
        t \in CategoryValues, f \in CategoryValues }

\* ------------------------------------------------------------------------
\* Inputs of normalize_skills
\* ------------------------------------------------------------------------

\* the characters of the long entry of a list
SkillChars == {"P", " ", "\t"}

\* the strings of at most MaxSkillLen of them
SkillStrings == UNION { [1..k -> SkillChars] : k \in 0..MaxSkillLen }

\* the other entries of a list: a lowercase name, an empty string, an
\* object that is not a string, a padded name
OtherEntries == {Str(<<"p">>), Str(<<>>), NonStr, Str(<<" ", "p", " ">>)}

\* the lists given to normalize_skills: the empty list, and a string
\* followed by other entries
SkillLists ==
    {<<>>} \cup
    { <<Str(w)>> \o rest :
        w \in SkillStrings,
        rest \in UNION { [1..k -> OtherEntries] : k \in 0..(MaxListLen - 1) } }

\* ------------------------------------------------------------------------
\* Deterministic extractor (FileParser.extract_skills_from_text)
\* ------------------------------------------------------------------------

\* \w of the regular expressions, on the characters of the model
IsWordChar(c) == ~IsSpace(c) /\ c \notin {"+", ".", "#", "-", "/"}

\* the elements of a pattern: a literal character, \b and \s+
Lit(c) == [kind |-> "lit", c |-> c]
WordBoundary == [kind |-> "b", c |-> ""]
Spaces == [kind |-> "s+", c |-> ""]

\* \b between text[i] and text[i + 1]
AtBoundary(text, i) ==
    (i >= 1 /\ IsWordChar(text[i])) # (i < Len(text) /\ IsWordChar(text[i + 1]))

\* the positions at which a match of pat that starts after text[i] can end
RECURSIVE MatchEnds(_, _, _)
MatchEnds(pat, text, i) ==
    IF pat = <<>> THEN {i}
    ELSE LET e == Head(pat) IN
         CASE e.kind = "lit" ->
                IF i < Len(text) /\ text[i + 1] = e.c
                THEN MatchEnds(Tail(pat), text, i + 1) ELSE {}
           [] e.kind = "b" ->
                IF AtBoundary(text, i) THEN MatchEnds(Tail(pat), text, i) ELSE {}
           [] e.kind = "s+" ->
                UNION { MatchEnds(Tail(pat), text, j) :
                          j \in {k \in (i + 1)..Len(text) :
                                   \A m \in (i + 1)..k : IsSpace(text[m])} }

\* re.search(pattern, text): a pattern is the set of its alternatives
Search(pattern, text) ==
    \E alt \in pattern : \E i \in 0..Len(text) : MatchEnds(alt, text, i) # {}

Cpp == <<"c", "+", "+">>
C == <<"c">>
NodeJs == <<"n", "o", "d", "e", ".", "j", "s">>

\* the skills database of the model, flattened: two symbol-bearing skills
\* and a plain one (data/skills_database.json is not among the sources)
SkillsDatabase == <<Cpp, C, NodeJs>>

\* a pattern that is a sequence of literal characters
Lits(chars) == [i \in 1..Len(chars) |-> Lit(chars[i])]

\* special_cases, for the skills of the model's database:
\* 'c++': r'c\+\+' and 'node.js': r'node(?:\.js)?|nodejs'
SpecialCases ==
    (Cpp :> {Lits(Cpp)})
        @@ (NodeJs :> { Lits(<<"n", "o", "d", "e">>), Lits(NodeJs),
                        Lits(<<"n", "o", "d", "e", "j", "s">>) })

\* the pattern with the word boundaries, for a skill without special case
GenericPattern(lower_skill) ==
    { <<WordBoundary>>
        \o [i \in 1..Len(lower_skill) |->
              IF lower_skill[i] = " " THEN Spaces ELSE Lit(lower_skill[i])]
        \o <<WordBoundary>> }

\* variant: no table of special cases
generate_skill_pattern_generic(skill) == GenericPattern(lower(skill))

\* generate_skill_pattern
generate_skill_pattern(skill) ==
    LET lower_skill == lower(skill) IN
    IF lower_skill \in DOMAIN SpecialCases THEN SpecialCases[lower_skill]
    ELSE GenericPattern(lower_skill)

\* ord(c)
CharCode(c) ==
    CASE c = "\t" -> 9
      [] c = " " -> 32
      [] c = "+" -> 43
      [] c = "." -> 46
      [] c = "C" -> 67
      [] c = "D" -> 68
      [] c = "E" -> 69
      [] c = "N" -> 78
      [] c = "P" -> 80
      [] c = "R" -> 82
      [] c = "c" -> 99
      [] c = "d" -> 100
      [] c = "e" -> 101
      [] c = "j" -> 106
      [] c = "n" -> 110
      [] c = "o" -> 111
      [] c = "p" -> 112
      [] c = "r" -> 114
      [] c = "s" -> 115

\* a < b for strings
RECURSIVE StrLess(_, _)
StrLess(a, b) ==
    IF b = <<>> THEN FALSE
    ELSE IF a = <<>> THEN TRUE
    ELSE IF Head(a) # Head(b) THEN CharCode(Head(a)) < CharCode(Head(b))
    ELSE StrLess(Tail(a), Tail(b))

\* sorted(list(S)) for a set of strings
RECURSIVE Sorted(_)
Sorted(S) ==
    IF S = {} THEN <<>>
    ELSE LET least == CHOOSE x \in S : \A y \in S \ {x} : StrLess(x, y)
         IN  <<least>> \o Sorted(S \ {least})

\* the skills of the database without case-insensitive duplicates
RECURSIVE UniqueSkills(_, _)
UniqueSkills(all, seen) ==
    IF all = <<>> THEN <<>>
    ELSE IF lower(Head(all)) \in seen THEN UniqueSkills(Tail(all), seen)
    ELSE <<Head(all)>> \o UniqueSkills(Tail(all), seen \cup {lower(Head(all))})

\* FileParser.extract_skills_from_text: the sorted list of the lowercased
\* skills whose pattern is found in the lowercased text
extract_skills_from_text(text) ==
    LET unique_skills == UniqueSkills(SkillsDatabase, {})
        text_lower == lower(text)
    IN  Sorted({ lower(unique_skills[i]) :
                   i \in {k \in 1..Len(unique_skills) :
                            Search(generate_skill_pattern(unique_skills[k]), text_lower)} })

\* ------------------------------------------------------------------------
\* Generative extractor adapter (AIClient.extract_skills)
\* ------------------------------------------------------------------------

\* a value of the parsed response: a key that is absent, null, or a list
Absent == [kind |-> "absent", items |-> <<>>]
Null == [kind |-> "null", items |-> <<>>]

\* the keys extract_skills reads from the parsed response
ResponseKeys == {"technical_skills", "skills", "technologies", "soft_skills"}

\* the values the model gives a key of the response
ResponseValues == {Absent, Null, List(<<>>), List(<<Cpp>>)}

NoBody == [k \in ResponseKeys |-> Absent]

\* what the external text-generation service can answer: an error of the
\* call, text that is not JSON, JSON that is neither an object nor an array,
\* a JSON array, or a JSON object
NoResponse == [kind |-> "none", body |-> NoBody]
Responses ==
    { [kind |-> k, body |-> NoBody] : k \in {"error", "text", "scalar", "array"} }
        \cup { [kind |-> "object", body |-> b] : b \in [ResponseKeys -> ResponseValues] }

\* the characters of the texts
TextChars == {"c", "C", "+", " "}

Texts == UNION { [1..k -> TextChars] : k \in 0..MaxTextLen }

\* the openai_client property: _openai_client is set to None by __init__
\* and never assigned again, so hasattr holds and the property yields None
openai_client == FALSE

\* generate_structured_output raises for every answer but a JSON object or
\* array: the error of the call, json.JSONDecodeError turned into
\* ValueError, "Unexpected output format"
ParsingRaises(response) == response.kind \in {"error", "text", "scalar"}

\* the parsed value: an array is wrapped as {"items": parsed}
Parsed(response) == IF response.kind = "array" THEN NoBody ELSE response.body

\* result.get(key, [])
GetOrEmpty(result, key) ==
    IF result[key].kind = "absent" THEN List(<<>>) ELSE result[key]

\* list + list; None + list and list + None raise TypeError
ConcatRaises(result) ==
    GetOrEmpty(result, "technical_skills").kind # "list"
        \/ GetOrEmpty(result, "skills").kind # "list"

\* the dictionary extract_skills returns
ReturnedSkills(result) ==
    [c \in Categories |->
        IF c = "skills"
        THEN List(GetOrEmpty(result, "technical_skills").items
                    \o GetOrEmpty(result, "skills").items)
        ELSE GetOrEmpty(result, c)]

NoResult == [c \in Categories |-> List(<<>>)]

\* ------------------------------------------------------------------------
\* Score interpreter (get_score_interpretation, TranslationService.get)
\* ------------------------------------------------------------------------

Tiers == {"low", "medium", "high"}

\* what a locale file holds under the key "score_interpretation.<tier>":
\* nothing, a text, a text with the placeholder {} (str.format() raises
\* IndexError for it), or a value that is not a string
LocaleValues == {"absent", "text", "braces", "other"}

\* a language without a loaded locale file
NotLoaded == [loaded |-> FALSE, values |-> [t \in Tiers |-> "absent"]]

Loaded(values) == [loaded |-> TRUE, values |-> values]

\* self.locales when no locale file was loaded
NoLocales == [l \in {"en", "bg"} |-> NotLoaded]

\* the strings the interpreter handles: the translation key, a default
\* message, the text of a locale file, str() of a value of a locale file
Key(tier) == [kind |-> "key", tier |-> tier, lang |-> "none"]
DefaultMessage(tier) == [kind |-> "default", tier |-> tier, lang |-> "en"]
LocaleText(tier, lang) == [kind |-> "text", tier |-> tier, lang |-> lang]
ValueAsString(tier, lang) == [kind |-> "other", tier |-> tier, lang |-> lang]
NoMessage == [kind |-> "none", tier |-> "none", lang |-> "none"]

\* the KeyError raised inside TranslationService.get
KeyErrorRaised == [kind |-> "KeyError", tier |-> "none", lang |-> "none"]

\* "if lang not in self.locales: lang = 'en'"
EffectiveLanguage(loc, lang) ==
    IF lang \in DOMAIN loc /\ loc[lang].loaded THEN lang ELSE "en"

\* TranslationService.get without the retry in English: KeyError for a
\* language or a key that is not there, any other exception gives the key
LookUp(loc, tier, lang) ==
    IF ~loc[lang].loaded THEN KeyErrorRaised
    ELSE CASE loc[lang].values[tier] = "absent" -> KeyErrorRaised
           [] loc[lang].values[tier] = "text" -> LocaleText(tier, lang)
           [] loc[lang].values[tier] = "braces" -> Key(tier)
           [] loc[lang].values[tier] = "other" -> ValueAsString(tier, lang)

\* TranslationService.get for the key of a tier
translator_get(loc, tier, lang) ==
    LET l == EffectiveLanguage(loc, lang)
        first == LookUp(loc, tier, l)
    IN  IF first # KeyErrorRaised THEN first
        ELSE IF l # "en" /\ loc["en"].loaded
             THEN LET second == LookUp(loc, tier, "en")
                  IN  IF second # KeyErrorRaised THEN second ELSE Key(tier)
             ELSE Key(tier)

\* the thresholds of the tiers, in hundredths: 50 and 80
MediumFrom == 5000
HighFrom == 8000

\* variant: the translation is returned as it comes
TranslationUnchecked(loc, tier, lang) == translator_get(loc, tier, lang)

\* trans if trans != key else default_interpretations[tier]
TranslationOrDefault(loc, tier, lang) ==
    LET trans == translator_get(loc, tier, lang)
    IN  IF trans # Key(tier) THEN trans ELSE DefaultMessage(tier)

\* variant: 50 is low and 80 is medium
get_score_interpretation_inclusive(score, lang, loc) ==
    IF score <= MediumFrom THEN TranslationOrDefault(loc, "low", lang)
    ELSE IF score <= HighFrom THEN TranslationOrDefault(loc, "medium", lang)
    ELSE TranslationOrDefault(loc, "high", lang)

\* get_score_interpretation
get_score_interpretation(score, lang, loc) ==
    IF score < MediumFrom THEN TranslationOrDefault(loc, "low", lang)
    ELSE IF score < HighFrom THEN TranslationOrDefault(loc, "medium", lang)
    ELSE TranslationOrDefault(loc, "high", lang)

\* the scores given to the interpreter: the ends of the range and the
\* neighbours of the thresholds
Scores == {0, 4999, 5000, 5001, 7999, 8000, 8001, 10000}

\* the languages of a request; no locale file is ever loaded for "fr"
Languages == {"en", "bg", "fr"}

\* the states of self.locales: an English file with any values, a Bulgarian
\* one with texts or gaps
LocaleStates ==
    { [l \in {"en", "bg"} |-> IF l = "en" THEN en ELSE bg] :
        en \in {NotLoaded} \cup {Loaded(v) : v \in [Tiers -> LocaleValues]},
        bg \in {NotLoaded} \cup {Loaded(v) : v \in [Tiers -> {"absent", "text"}]} }

\* ------------------------------------------------------------------------
\* State: one matching request (job_match), from the skill dictionaries on
\* ------------------------------------------------------------------------

VARIABLES
    job_skills,     \* the job's skill dictionary
    cv_skills,      \* the candidate's skill dictionary
    pc,             \* the position of job_match: start, done or failed
    match_score,    \* the result of calculate_match_score, in hundredths
    suggestions,    \* the result of generate_improvement_suggestions
    language,       \* the language of the request
    locales,        \* the translations the TranslationService has loaded
    score_interpretation,   \* the result of get_score_interpretation
    ai_text,        \* the text given to AIClient.extract_skills
    cohere_ready,   \* whether _cohere_client holds a client
    cohere_key,     \* whether COHERE_API_KEY is set
    initialized,    \* the _initialized flag of the AIClient
    ai_requests,    \* the requests this extraction sent to the service
    ai_pc,          \* the position of extract_skills: idle, checked,
                    \* waiting, returned, raised or hung
    ai_response,    \* the answer of the external service
    ai_result,      \* the dictionary extract_skills returned
    norm_input,     \* the list given to normalize_skills
    norm_pc,        \* the position of the caller of normalize_skills
    norm_output,    \* the set normalize_skills returned
    norm_again,     \* the set it returned when given that set
    scan_text,      \* the text given to FileParser.extract_skills_from_text
    scan_pc,        \* the position of its caller
    found_skills    \* the list it returned

match_vars ==
    <<job_skills, cv_skills, pc, match_score, suggestions, language, locales,
      score_interpretation>>

ai_vars ==
    <<ai_text, cohere_ready, cohere_key, initialized, ai_requests, ai_pc,
      ai_response, ai_result>>

norm_vars == <<norm_input, norm_pc, norm_output, norm_again>>

scan_vars == <<scan_text, scan_pc, found_skills>>

VARIABLES
    req_given,      \* per request, the dictionaries job_match built
    req_args,       \* per request, those dictionaries as they are now
    req_pc,         \* per request, the position of job_match
    req_score,      \* per request, the result of calculate_match_score
    req_suggestions,    \* per request, the suggestions it got
    req_trace       \* the requests in the order of their steps

req_vars == <<req_given, req_args, req_pc, req_score, req_suggestions, req_trace>>

VARIABLES
    skills_file,    \* what data/skills_database.json holds now
    SKILL_DATABASE, \* the module-level vocabulary of job_scanner
    vocabulary_loads,   \* the calls of load_skills_database so far
    vocabularies_seen,  \* the vocabularies the requests worked with
    requests_served     \* the extraction requests served so far

voc_vars ==
    <<skills_file, SKILL_DATABASE, vocabulary_loads, vocabularies_seen,
      requests_served>>

VARIABLES
    job_info,       \* the job description given to extract_skills_from_text
    tech_skills,    \* the technical skills found so far
    soft_skills,    \* the soft skills found so far
    strategies_run, \* the strategies that ran, each with what was found
                    \* once it had run
    pipe_pc,        \* the position of job_match in building its dictionaries
    extracted_job_skills,   \* the dictionary extract_skills_from_text returned
    cv_data,        \* the entry of cv_storage
    assembled_cv_skills     \* the cv_skills dictionary job_match assembled

pipe_vars ==
    <<job_info, tech_skills, soft_skills, strategies_run, pipe_pc,
      extracted_job_skills, cv_data, assembled_cv_skills>>

VARIABLES
    interview_sessions, \* the module-level dictionary of the sessions
    gen_pc,         \* per call of generate_questions, its position
    gen_session_id, \* per call, the session_id it chose
    gen_questions,  \* per call, the number of questions it got
    sub_pc,         \* per caller of submit_answer, the position of its call
    sub_current_q,  \* per caller, the current_q its call read
    submits_started,    \* the calls of submit_answer so far
    responses       \* the feedback scores the successful calls returned

sess_vars ==
    <<interview_sessions, gen_pc, gen_session_id, gen_questions, sub_pc,
      sub_current_q, submits_started, responses>>

\* the variables of the other parts of the program
more_vars == <<req_vars, voc_vars, pipe_vars, sess_vars>>

base_vars == <<match_vars, ai_vars, norm_vars, scan_vars>>

\* what the concurrent requests leave alone
others_req == <<base_vars, voc_vars, pipe_vars, sess_vars>>

\* what the loading of the vocabulary leaves alone
others_voc == <<base_vars, req_vars, pipe_vars, sess_vars>>

\* what the building of the dictionaries leaves alone
others_pipe == <<base_vars, req_vars, voc_vars, sess_vars>>

\* what the interview simulator leaves alone
others_sess == <<base_vars, req_vars, voc_vars, pipe_vars>>

vars == <<match_vars, ai_vars, norm_vars, scan_vars, more_vars>>

\* no concurrent matching requests
ReqIdle ==
    /\ req_given = <<>>
    /\ req_args = <<>>
    /\ req_pc = <<>>
    /\ req_score = <<>>
    /\ req_suggestions = <<>>
    /\ req_trace = <<>>

\* no process whose loads are counted
VocIdle ==
    /\ skills_file = "none"
    /\ SKILL_DATABASE = "none"
    /\ vocabulary_loads = 0
    /\ vocabularies_seen = {}
    /\ requests_served = 0

\* no request whose dictionaries are being built
PipeIdle ==
    /\ job_info = <<>>
    /\ tech_skills = {}
    /\ soft_skills = {}
    /\ strategies_run = <<>>
    /\ pipe_pc = "off"
    /\ extracted_job_skills = <<>>
    /\ cv_data = <<>>
    /\ assembled_cv_skills = <<>>

\* no interview
SessIdle ==
    /\ interview_sessions = <<>>
    /\ gen_pc = <<>>
    /\ gen_session_id = <<>>
    /\ gen_questions = <<>>
    /\ sub_pc = <<>>
    /\ sub_current_q = <<>>
    /\ submits_started = 0
    /\ responses = <<>>

MoreIdle == ReqIdle /\ VocIdle /\ PipeIdle /\ SessIdle

\* no call of the deterministic extractor on its own
ScanIdle ==
    /\ scan_text = <<>>
    /\ scan_pc = "off"
    /\ found_skills = <<>>

\* no call of normalize_skills on its own
NormIdle ==
    /\ norm_input = <<>>
    /\ norm_pc = "off"
    /\ norm_output = {}
    /\ norm_again = {}

\* no extraction call
AiIdle ==
    /\ ai_text = <<>>
    /\ cohere_ready = FALSE
    /\ cohere_key = FALSE
    /\ initialized = FALSE
    /\ ai_requests = 0
    /\ ai_pc = "off"
    /\ ai_response = NoResponse
    /\ ai_result = NoResult

\* no matching request
MatchIdle ==
    /\ job_skills = <<>>
    /\ cv_skills = <<>>
    /\ pc = "off"
    /\ match_score = 0
    /\ suggestions = <<>>
    /\ language = "en"
    /\ locales = NoLocales
    /\ score_interpretation = NoMessage

Init ==
    /\ MoreIdle
    /\ job_skills \in JobDicts
    /\ cv_skills \in CvDicts
    /\ pc = "start"
    /\ match_score = 0
    /\ suggestions = <<>>
    /\ language = "en"
    /\ locales = NoLocales
    /\ score_interpretation = NoMessage
    /\ AiIdle
    /\ NormIdle
    /\ ScanIdle

\* job_match, from the call of calculate_match_score on: the score, the
\* suggestions, then the interpretation of the score; an exception of
\* generate_improvement_suggestions ends the request with an HTTP 500 error
job_match ==
    /\ pc = "start"
    /\ match_score' = calculate_match_score(job_skills, cv_skills)
    /\ IF LoweringRaises(job_skills) \/ LoweringRaises(cv_skills)
       THEN /\ pc' = "failed"
            /\ suggestions' = <<>>
            /\ score_interpretation' = score_interpretation
       ELSE /\ pc' = "done"
            /\ suggestions' \in generate_improvement_suggestions(job_skills, cv_skills)
            /\ score_interpretation' =
                  get_score_interpretation(match_score', language, locales)
    /\ UNCHANGED <<more_vars, job_skills, cv_skills, language, locales, ai_vars, norm_vars, scan_vars>>

Next == job_match

Spec == Init /\ [][Next]_vars

\* a matching request for a job with many skills
InitCards ==
    /\ MoreIdle
    /\ job_skills \in ManySkillsJobs
    /\ cv_skills \in FewSkillsCvs
    /\ pc = "start"
    /\ match_score = 0
    /\ suggestions = <<>>
    /\ language = "en"
    /\ locales = NoLocales
    /\ score_interpretation = NoMessage
    /\ AiIdle
    /\ NormIdle
    /\ ScanIdle

SpecCards == InitCards /\ [][Next]_vars

\* a matching request whose dictionaries may hold malformed categories
InitMalformed ==
    /\ MoreIdle
    /\ job_skills \in MalformedDicts
    /\ cv_skills \in MalformedDicts
    /\ pc = "start"
    /\ match_score = 0
    /\ suggestions = <<>>
    /\ language = "en"
    /\ locales = NoLocales
    /\ score_interpretation = NoMessage
    /\ AiIdle
    /\ NormIdle
    /\ ScanIdle

SpecMalformed == InitMalformed /\ [][Next]_vars

\* one call of get_score_interpretation
InitInterpret ==
    /\ MoreIdle
    /\ job_skills = <<>>
    /\ cv_skills = <<>>
    /\ pc = "scored"
    /\ match_score \in Scores
    /\ suggestions = <<>>
    /\ language \in Languages
    /\ locales \in LocaleStates
    /\ score_interpretation = NoMessage
    /\ AiIdle
    /\ NormIdle
    /\ ScanIdle

\* the call: the function has no branch that raises, and every exception of
\* TranslationService.get is caught inside it
interpret_score ==
    /\ pc = "scored"
    /\ pc' = "interpreted"
    /\ score_interpretation' = get_score_interpretation(match_score, language, locales)
    /\ UNCHANGED <<more_vars, job_skills, cv_skills, match_score, suggestions, language,
                   locales, ai_vars, norm_vars, scan_vars>>

NextInterpret == interpret_score

SpecInterpret == InitInterpret /\ [][NextInterpret]_vars

\* one call of AIClient.extract_skills, in a process whose start-up ran
\* _initialize_clients: without a key there is no client; with a key the
\* connection test either passed (client kept, _initialized set) or failed
\* (client dropped, _initialized left unset)
InitExtract ==
    /\ MoreIdle
    /\ MatchIdle
    /\ NormIdle
    /\ ScanIdle
    /\ ai_text \in Texts
    /\ cohere_key \in BOOLEAN
    /\ cohere_ready \in BOOLEAN
    /\ cohere_ready => cohere_key
    /\ initialized = cohere_ready
    /\ ai_requests = 0
    /\ ai_pc = "idle"
    /\ ai_response = NoResponse
    /\ ai_result = NoResult

\* how a request to the external service can go for the connection test of
\* _initialize_cohere: it passes, it fails, or the service never answers
TestOutcomes == {"ok", "error", "silent"}

\* the cohere_client property, read first by generate_structured_output:
\* while there is no client and _initialized is unset it runs
\* _initialize_cohere, which without a key does nothing and with a key
\* creates the client and sends a test request; the client is kept when the
\* test passes and dropped when it raises. No timeout is given, so when the
\* service never answers the client library either raises or blocks
cohere_client ==
    /\ ai_pc = "idle"
    /\ IF cohere_ready \/ initialized \/ ~cohere_key
       THEN /\ ai_pc' = "checked"
            /\ UNCHANGED <<cohere_ready, ai_requests>>
       ELSE /\ ai_requests' = ai_requests + 1
            /\ \E outcome \in TestOutcomes :
                  \/ /\ outcome = "ok"
                     /\ cohere_ready' = TRUE
                     /\ ai_pc' = "checked"
                  \/ /\ outcome \in {"error", "silent"}
                     /\ cohere_ready' = FALSE
                     /\ ai_pc' = "checked"
                  \/ /\ outcome = "silent"
                     /\ cohere_ready' = TRUE
                     /\ ai_pc' = "hung"
    /\ UNCHANGED <<more_vars, match_vars, norm_vars, scan_vars, ai_text, cohere_key, initialized,
                   ai_response, ai_result>>

\* extract_skills up to the request to the external service: the prompt is
\* built and generate_structured_output calls Cohere when its client is
\* there; without a client it raises RuntimeError, which both functions log
\* and raise again
CallExternal ==
    /\ ai_pc = "checked"
    /\ IF cohere_ready
       THEN /\ ai_pc' = "waiting"
            /\ ai_requests' = ai_requests + 1
       ELSE /\ ai_pc' = IF openai_client THEN "waiting" ELSE "raised"
            /\ ai_requests' = ai_requests + (IF openai_client THEN 1 ELSE 0)
    /\ UNCHANGED <<more_vars, match_vars, norm_vars, scan_vars, ai_text, cohere_ready, cohere_key,
                   initialized, ai_response, ai_result>>

\* the rest of extract_skills, from the answer of the external service on:
\* every exception is logged and raised again
ReceiveResponse ==
    /\ ai_pc = "waiting"
    /\ \E response \in Responses :
          /\ ai_response' = response
          /\ IF ParsingRaises(response) \/ ConcatRaises(Parsed(response))
             THEN /\ ai_pc' = "raised"
                  /\ ai_result' = ai_result
             ELSE /\ ai_pc' = "returned"
                  /\ ai_result' = ReturnedSkills(Parsed(response))
    /\ UNCHANGED <<more_vars, match_vars, norm_vars, scan_vars, ai_text, cohere_ready, cohere_key,
                   initialized, ai_requests>>

\* the external service never answers the request
Silent == [kind |-> "silent", body |-> NoBody]

\* the request of generate_structured_output when the service never
\* answers: the call is synchronous and carries no timeout, so either the
\* client library raises, which is logged and raised again, or the call
\* blocks for good
CollaboratorSilent ==
    /\ ai_pc = "waiting"
    /\ ai_response' = Silent
    /\ ai_pc' \in {"raised", "hung"}
    /\ UNCHANGED <<more_vars, match_vars, norm_vars, scan_vars, ai_text, cohere_ready, cohere_key,
                   initialized, ai_requests, ai_result>>

NextExtract == cohere_client \/ CallExternal \/ ReceiveResponse \/ CollaboratorSilent

SpecExtract == InitExtract /\ [][NextExtract]_vars

\* normalize_skills on a list, then on the set it returned
InitNormalize ==
    /\ MoreIdle
    /\ MatchIdle
    /\ AiIdle
    /\ ScanIdle
    /\ norm_input \in SkillLists
    /\ norm_pc = "start"
    /\ norm_output = {}
    /\ norm_again = {}

\* normalized = normalize_skills(skills)
normalize ==
    /\ norm_pc = "start"
    /\ norm_pc' = "normalized"
    /\ norm_output' = normalize_skills(norm_input)
    /\ UNCHANGED <<more_vars, match_vars, ai_vars, scan_vars, norm_input, norm_again>>

\* normalize_skills(normalized): the loop takes the members of the set in
\* one of its iteration orders
renormalize ==
    /\ norm_pc = "normalized"
    /\ norm_pc' = "renormalized"
    /\ \E order \in Perms({Str(m) : m \in norm_output}) :
          norm_again' = normalize_skills(order)
    /\ UNCHANGED <<more_vars, match_vars, ai_vars, scan_vars, norm_input, norm_output>>

NextNormalize == normalize \/ renormalize

SpecNormalize == InitNormalize /\ [][NextNormalize]_vars

\* one call of FileParser.extract_skills_from_text
InitScan ==
    /\ MoreIdle
    /\ MatchIdle
    /\ AiIdle
    /\ NormIdle
    /\ scan_text \in Texts
    /\ scan_pc = "start"
    /\ found_skills = <<>>

\* the call: the database is loaded, every pattern is searched in the
\* lowercased text, and the sorted list of the skills found is returned
scan ==
    /\ scan_pc = "start"
    /\ scan_pc' = "done"
    /\ found_skills' = extract_skills_from_text(scan_text)
    /\ UNCHANGED <<more_vars, match_vars, ai_vars, norm_vars, scan_text>>

NextScan == scan

SpecScan == InitScan /\ [][NextScan]_vars

\* the matching requests that run at the same time
Requests == {1, 2}

\* the dictionaries job_match builds for them
RequestJobs ==
    { <<>>,
      ("technologies" :> List(<<Str(<<"p">>), Str(<<"r">>)>>))
          @@ ("soft_skills" :> List(<<Str(<<"r">>)>>)),
      ("technologies" :> List(<<Str(<<" ", "P">>), Str(<<"r">>)>>)) }

RequestCvs ==
    { <<>>,
      ("technologies" :> List(<<Str(<<"p">>), Str(<<"d">>)>>)) }

\* a variant of ArgumentsAfterScoring that empties the candidate's dictionary
ArgumentsConsumed(args) == [args EXCEPT !.cv = <<>>]

\* the dictionaries given to calculate_match_score, after the call: the
\* function reads them into new dictionaries of sets and assigns to none of
\* their keys or lists
ArgumentsAfterScoring(args) == args

\* the dictionaries given to generate_improvement_suggestions, after the
\* call: it builds lowercased copies and sets, and assigns to none of their
\* keys or lists
ArgumentsAfterSuggesting(args) == args

\* two requests, each with the dictionaries job_match built for it
InitConcurrent ==
    /\ MatchIdle
    /\ AiIdle
    /\ NormIdle
    /\ ScanIdle
    /\ VocIdle
    /\ PipeIdle
    /\ SessIdle
    /\ req_given \in [Requests -> [job : RequestJobs, cv : RequestCvs]]
    /\ req_args = req_given
    /\ req_pc = [r \in Requests |-> "start"]
    /\ req_score = [r \in Requests |-> 0]
    /\ req_suggestions = [r \in Requests |-> <<>>]
    /\ req_trace = <<>>

\* request r calls calculate_match_score on its dictionaries
score_request(r) ==
    /\ req_pc[r] = "start"
    /\ req_score' =
          [req_score EXCEPT ![r] = calculate_match_score(req_args[r].job, req_args[r].cv)]
    /\ req_args' = [req_args EXCEPT ![r] = ArgumentsAfterScoring(req_args[r])]
    /\ req_pc' = [req_pc EXCEPT ![r] = "scored"]
    /\ req_trace' = Append(req_trace, r)
    /\ UNCHANGED <<others_req, req_given, req_suggestions>>

\* request r calls generate_improvement_suggestions on the same dictionaries
suggest_request(r) ==
    /\ req_pc[r] = "scored"
    /\ \E result \in generate_improvement_suggestions(req_args[r].job, req_args[r].cv) :
          req_suggestions' = [req_suggestions EXCEPT ![r] = result]
    /\ req_args' = [req_args EXCEPT ![r] = ArgumentsAfterSuggesting(req_args[r])]
    /\ req_pc' = [req_pc EXCEPT ![r] = "done"]
    /\ req_trace' = Append(req_trace, r)
    /\ UNCHANGED <<others_req, req_given, req_score>>

NextConcurrent ==
    \/ \E r \in Requests : score_request(r)
    \/ \E r \in Requests : suggest_request(r)

SpecConcurrent == InitConcurrent /\ [][NextConcurrent]_vars

\* the extraction requests of a process that the model follows
MaxRequests == 3

\* what data/skills_database.json can hold: the vocabulary, an edited
\* vocabulary, or nothing that can be read
FileStates == {"database", "edited", "unreadable"}

\* load_skills_database of job_scanner: the content of the file, or a
\* built-in minimal vocabulary when the file cannot be loaded
load_skills_database_job_scanner(file) ==
    IF file = "unreadable" THEN "minimal" ELSE file

\* load_skills_database of file_parser: the content of the file, or the
\* empty dictionary when the file cannot be loaded
load_skills_database(file) ==
    IF file = "unreadable" THEN "empty" ELSE file

\* the process after its start: importing job_scanner has loaded the
\* vocabulary once into SKILL_DATABASE
InitVocabulary ==
    /\ MatchIdle
    /\ AiIdle
    /\ NormIdle
    /\ ScanIdle
    /\ ReqIdle
    /\ PipeIdle
    /\ SessIdle
    /\ skills_file \in FileStates
    /\ SKILL_DATABASE = load_skills_database_job_scanner(skills_file)
    /\ vocabulary_loads = 1
    /\ vocabularies_seen = {}
    /\ requests_served = 0

\* job_scanner.extract_skills_from_text for a matching request: it reads
\* SKILL_DATABASE and loads nothing
job_extraction ==
    /\ requests_served < MaxRequests
    /\ requests_served' = requests_served + 1
    /\ vocabularies_seen' = vocabularies_seen \cup {SKILL_DATABASE}
    /\ UNCHANGED <<others_voc, skills_file, SKILL_DATABASE, vocabulary_loads>>

\* FileParser.extract_skills_from_text for an uploaded CV: every call loads
\* the vocabulary from the file again
cv_extraction ==
    /\ requests_served < MaxRequests
    /\ requests_served' = requests_served + 1
    /\ vocabulary_loads' = vocabulary_loads + 1
    /\ vocabularies_seen' = vocabularies_seen \cup {load_skills_database(skills_file)}
    /\ UNCHANGED <<others_voc, skills_file, SKILL_DATABASE>>

\* the file is replaced while the process runs
file_replaced ==
    /\ requests_served < MaxRequests
    /\ \E file \in FileStates \ {skills_file} : skills_file' = file
    /\ UNCHANGED <<others_voc, SKILL_DATABASE, vocabulary_loads, vocabularies_seen,
                   requests_served>>

NextVocabulary == job_extraction \/ cv_extraction \/ file_replaced

SpecVocabulary == InitVocabulary /\ [][NextVocabulary]_vars

\* ------------------------------------------------------------------------
\* The dictionaries of job_match (job_scanner.extract_skills_from_text,
\* extract_skills_from_structured, extract_skills_using_regex, job_match)
\* ------------------------------------------------------------------------

\* the longest job description of the model
MaxInfoLen == 3

\* the characters of a job description
InfoChars == {"c", "r", "R", "+", " "}

InfoTexts == UNION { [1..k -> InfoChars] : k \in 0..MaxInfoLen }

\* the 'skills' field of a structured job description: absent, or a list
StructuredFields ==
    { Absent, List(<<>>), List(<<Str(<<"C">>)>>), List(<<Str(<<"R">>)>>),
      List(<<Str(<<" ">>)>>), List(<<Str(<<"c", " ", "r">>), NonStr>>),
      List(<<Str(<<"r">>), Str(<<"c", "+", "+">>)>>) }

\* Python's "a in b" for strings
in_text(a, b) ==
    \/ a = <<>>
    \/ \E i \in 1..Len(b) : i + Len(a) - 1 <= Len(b) /\ SubSeq(b, i, i + Len(a) - 1) = a

\* the string entries of the 'skills' field
StructuredItems(info) ==
    IF info.skills.kind = "list"
    THEN {e.chars : e \in {x \in Range(info.skills.items) : x.str}}
    ELSE {}

\* any(skill in item_lower for category in SKILL_DATABASE.values()
\*     for skill in category)
NamesDatabaseSkill(item) ==
    \E k \in 1..Len(SkillsDatabase) : in_text(SkillsDatabase[k], lower(item))

\* extract_skills_from_structured: an entry that contains a skill of the
\* database is a technical skill, every other entry a soft skill
extract_skills_from_structured(info) ==
    [tech_skills |-> {strip(item) : item \in {x \in StructuredItems(info) : NamesDatabaseSkill(x)}},
     soft_skills |-> {strip(item) : item \in {x \in StructuredItems(info) : ~NamesDatabaseSkill(x)}}]

\* the alternatives of tech_patterns that a text of the model's characters
\* can match, \b(?:...|c\+\+|...|r|...)\b: each with the string it finds
TechAlternatives ==
    { [found |-> <<"r">>, pat |-> <<WordBoundary>> \o Lits(<<"r">>) \o <<WordBoundary>>],
      [found |-> Cpp, pat |-> <<WordBoundary>> \o Lits(Cpp) \o <<WordBoundary>>] }

\* extract_skills_using_regex, with re.IGNORECASE and match.lower(); no
\* alternative of soft_patterns can match a text of the model's characters
extract_skills_using_regex(text) ==
    [tech_skills |-> {alt.found : alt \in {a \in TechAlternatives : Search({a.pat}, lower(text))}},
     soft_skills |-> {}]

\* the skills of the database that occur in the text
KeywordMatches(text_lower) ==
    {SkillsDatabase[k] : k \in {j \in 1..Len(SkillsDatabase) : in_text(SkillsDatabase[j], text_lower)}}

\* variant: regex extraction runs whenever no technical skill was found
RegexRunsWithoutTech(tech, soft) == tech = {}

\* "if not tech_skills and not soft_skills": regex extraction runs
RegexRuns(tech, soft) == tech = {} /\ soft = {}

\* "if not tech_skills": keyword matching runs
KeywordRuns(tech, soft) == tech = {}

IsLetter(c) == c \in {"c", "r", "C", "R", "p", "d", "e", "n", "P", "D", "E", "N"}

UpperChar(c) ==
    CASE c = "p" -> "P"
      [] c = "c" -> "C"
      [] c = "r" -> "R"
      [] c = "d" -> "D"
      [] c = "e" -> "E"
      [] c = "n" -> "N"
      [] OTHER -> c

\* str.title(): a letter after a letter is lowercased, every other letter
\* is uppercased
title(chars) ==
    [i \in 1..Len(chars) |->
        IF i > 1 /\ IsLetter(chars[i - 1]) THEN LowerChar(chars[i])
        ELSE UpperChar(chars[i])]

\* skill.replace('.', '').replace(' ', '').lower()
Processed(skill) == lower(SelectSeq(skill, LAMBDA ch : ch \notin {".", " "}))

\* a job description as job_match passes it on: the raw text and, for a
\* structured description, a 'skills' field
JobInfos == [raw_text : InfoTexts, skills : StructuredFields]

\* the entries of cv_storage: the keys extracted_skills and parsed_data,
\* each absent or with a value
NoParsedData == [kind |-> "absent", skills |-> Absent, raw_text |-> <<>>]

ParsedData(skills, raw_text) == [kind |-> "dict", skills |-> skills, raw_text |-> raw_text]

CvRecords ==
    { [extracted_skills |-> Absent, parsed_data |-> NoParsedData],
      [extracted_skills |-> List(<<Str(<<"r">>)>>), parsed_data |-> NoParsedData],
      [extracted_skills |-> List(<<Str(<<"R">>), Str(<<" ", "r">>), NonStr, Str(<<>>)>>),
       parsed_data |-> NoParsedData],
      [extracted_skills |-> List(<<Str(<<"c", " ", " ", "r">>)>>), parsed_data |-> NoParsedData],
      [extracted_skills |-> List(<<>>),
       parsed_data |-> ParsedData(List(<<Str(<<"C">>), Str(<<" ">>)>>), <<"R", " ", "c">>)],
      [extracted_skills |-> Absent,
       parsed_data |-> ParsedData(Absent, <<"c">>)] }

\* the truthy strings of a list, lowercased
LoweredStrings(value) ==
    IF value.kind = "list"
    THEN {lower(e.chars) : e \in {x \in Range(value.items) : Truthy(x)}}
    ELSE {}

\* [str(skill).strip() for skill in l if skill and str(skill).strip()]
StrippedNonEmpty(l) ==
    SelectSeq([i \in 1..Len(l) |-> strip(l[i])], LAMBDA m : m # <<>>)

\* the cv_skills dictionaries job_match can assemble from an entry of
\* cv_storage: the extracted_skills, or else the skills of parsed_data and
\* what the regular expressions find in its raw text; each list is built
\* from a set, in any order, and then stripped
assemble_cv_skills(cv) ==
    LET first == LoweredStrings(cv.extracted_skills)
        second ==
            IF first = {} /\ cv.parsed_data.kind = "dict"
            THEN LoweredStrings(cv.parsed_data.skills)
                    \cup extract_skills_using_regex(cv.parsed_data.raw_text).tech_skills
            ELSE first
        soft ==
            IF first = {} /\ cv.parsed_data.kind = "dict"
            THEN extract_skills_using_regex(cv.parsed_data.raw_text).soft_skills
            ELSE {}
    IN  { [c \in Categories |->
             StrippedNonEmpty(IF c = "soft_skills" THEN soft_list ELSE skills_list)] :
          skills_list \in Perms(second), soft_list \in Perms(soft) }

\* job_match is about to build its dictionaries
InitPipeline ==
    /\ MatchIdle
    /\ AiIdle
    /\ NormIdle
    /\ ScanIdle
    /\ ReqIdle
    /\ VocIdle
    /\ SessIdle
    /\ job_info \in JobInfos
    /\ tech_skills = {}
    /\ soft_skills = {}
    /\ strategies_run = <<>>
    /\ pipe_pc = "start"
    /\ extracted_job_skills = <<>>
    /\ cv_data = <<>>
    /\ assembled_cv_skills = <<>>

\* a strategy that ran, with the skills found once it had run
Ran(name, tech, soft) == [name |-> name, tech |-> tech, soft |-> soft]

\* step 1 of extract_skills_from_text: structured extraction
structured_extraction ==
    /\ pipe_pc = "start"
    /\ LET result == extract_skills_from_structured(job_info) IN
          /\ tech_skills' = tech_skills \cup result.tech_skills
          /\ soft_skills' = soft_skills \cup result.soft_skills
          /\ strategies_run' =
                Append(strategies_run, Ran("structured", tech_skills', soft_skills'))
    /\ pipe_pc' = "structured"
    /\ UNCHANGED <<others_pipe, job_info, extracted_job_skills, cv_data,
                   assembled_cv_skills>>

\* step 2: regex extraction on the lowercased text, when nothing was found
regex_extraction ==
    /\ pipe_pc = "structured"
    /\ IF RegexRuns(tech_skills, soft_skills)
       THEN LET result == extract_skills_using_regex(lower(job_info.raw_text)) IN
              /\ tech_skills' = tech_skills \cup result.tech_skills
              /\ soft_skills' = soft_skills \cup result.soft_skills
              /\ strategies_run' =
                    Append(strategies_run, Ran("regex", tech_skills', soft_skills'))
       ELSE UNCHANGED <<tech_skills, soft_skills, strategies_run>>
    /\ pipe_pc' = "regex"
    /\ UNCHANGED <<others_pipe, job_info, extracted_job_skills, cv_data,
                   assembled_cv_skills>>

\* step 3: keyword matching against the database, when no technical skill
\* was found
keyword_matching ==
    /\ pipe_pc = "regex"
    /\ IF KeywordRuns(tech_skills, soft_skills)
       THEN /\ tech_skills' = tech_skills \cup KeywordMatches(lower(job_info.raw_text))
            /\ strategies_run' =
                  Append(strategies_run, Ran("keyword", tech_skills', soft_skills))
       ELSE UNCHANGED <<tech_skills, strategies_run>>
    /\ pipe_pc' = "keyword"
    /\ UNCHANGED <<others_pipe, job_info, soft_skills, extracted_job_skills, cv_data,
                   assembled_cv_skills>>

\* step 4 and the return: dots and blanks are taken out of the technical
\* skills, every skill is put in title case, and the same list of the
\* technical skills is returned under skills and under technologies
return_skills ==
    /\ pipe_pc = "keyword"
    /\ \E tech_list \in Perms({title(Processed(t)) : t \in tech_skills}),
          soft_list \in Perms({title(t) : t \in soft_skills}) :
          extracted_job_skills' =
              [c \in Categories |-> IF c = "soft_skills" THEN soft_list ELSE tech_list]
    /\ pipe_pc' = "extracted"
    /\ UNCHANGED <<others_pipe, job_info, tech_skills, soft_skills, strategies_run, cv_data,
                   assembled_cv_skills>>

\* job_match assembles cv_skills from the entry of cv_storage
assemble_cv ==
    /\ pipe_pc = "extracted"
    /\ \E cv \in CvRecords :
          /\ cv_data' = cv
          /\ assembled_cv_skills' \in assemble_cv_skills(cv)
    /\ pipe_pc' = "done"
    /\ UNCHANGED <<others_pipe, job_info, tech_skills, soft_skills, strategies_run,
                   extracted_job_skills>>

NextPipeline ==
    \/ structured_extraction
    \/ regex_extraction
    \/ keyword_matching
    \/ return_skills
    \/ assemble_cv

SpecPipeline == InitPipeline /\ [][NextPipeline]_vars

\* ------------------------------------------------------------------------
\* Interview simulator (generate_questions, submit_answer, get_session,
\* get_statistics, calculate_average_score)
\* ------------------------------------------------------------------------

\* the concurrent calls of generate_questions
MaxCallers == 2

Callers == 1..MaxCallers

\* session_data as generate_questions stores it; the caller stands for its
\* job description
NewSession(caller, questions) ==
    [job_description |-> caller, questions |-> questions,
     current_question_index |-> 0, answers |-> <<>>, feedback |-> <<>>]

\* the numbers of questions a call can get: none when the generation
\* failed, or the count for the lengths short, medium and long
QuestionCounts == {0, 4, 8, 12}

\* no session yet, no call of generate_questions past its validation
InitSessions ==
    /\ MatchIdle
    /\ AiIdle
    /\ NormIdle
    /\ ScanIdle
    /\ ReqIdle
    /\ VocIdle
    /\ PipeIdle
    /\ interview_sessions = <<>>
    /\ gen_pc = [c \in Callers |-> "start"]
    /\ gen_session_id = [c \in Callers |-> 0]
    /\ gen_questions = [c \in Callers |-> 0]
    /\ sub_pc = <<>>
    /\ sub_current_q = <<>>
    /\ submits_started = 0
    /\ responses = <<>>

\* generate_questions up to its first await: the session_id is the number
\* of the stored sessions plus one
choose_session_id(c) ==
    /\ gen_pc[c] = "start"
    /\ gen_session_id' =
          [gen_session_id EXCEPT ![c] = Cardinality(DOMAIN interview_sessions) + 1]
    /\ gen_pc' = [gen_pc EXCEPT ![c] = "generating"]
    /\ UNCHANGED <<others_sess, interview_sessions, gen_questions, sub_pc, sub_current_q,
                   submits_started, responses>>

\* the questions come back from the AI client: without questions the call
\* ends with an HTTP 500 error, with questions it goes on to await
\* extract_job_info
questions_generated(c) ==
    /\ gen_pc[c] = "generating"
    /\ \E n \in QuestionCounts :
          /\ gen_questions' = [gen_questions EXCEPT ![c] = n]
          /\ gen_pc' = [gen_pc EXCEPT ![c] = IF n = 0 THEN "failed" ELSE "extracting"]
    /\ UNCHANGED <<others_sess, interview_sessions, gen_session_id, sub_pc, sub_current_q,
                   submits_started, responses>>

\* the job info comes back: the session is stored under the session_id
\* chosen at the start, and the call returns
store_session(c) ==
    /\ gen_pc[c] = "extracting"
    /\ interview_sessions' =
          (gen_session_id[c] :> NewSession(c, gen_questions[c])) @@ interview_sessions
    /\ gen_pc' = [gen_pc EXCEPT ![c] = "stored"]
    /\ UNCHANGED <<others_sess, gen_session_id, gen_questions, sub_pc, sub_current_q,
                   submits_started, responses>>

NextSessions ==
    \/ \E c \in Callers : choose_session_id(c)
    \/ \E c \in Callers : questions_generated(c)
    \/ \E c \in Callers : store_session(c)

SpecSessions == InitSessions /\ [][NextSessions]_vars

\* the questions of the session the answers go to
MaxQuestions == 2

\* the calls of submit_answer the model follows
MaxSubmits == 3

\* the clients that submit answers to the same session
Submitters == {1, 2}

\* the session_id of that session
TheSession == 1

\* what ai_client.evaluate_answer gives: a score, or an exception
Evaluations ==
    { [raised |-> TRUE, score |-> 0], [raised |-> FALSE, score |-> 3],
      [raised |-> FALSE, score |-> 8] }

\* feedback["score"]: the score of the evaluation, 0 after an exception
FeedbackScore(evaluation) == IF evaluation.raised THEN 0 ELSE evaluation.score

\* round(x / n, 1) in tenths, for x >= 0 and n > 0
RoundTenths(x, n) == (20 * x + n) \div (2 * n)

\* calculate_average_score: the mean of the scores of the answers that hold
\* a feedback dictionary with a score from 0 to 10, in tenths; 0.0 without
\* such an answer
calculate_average_score(answers) ==
    LET scored ==
            SelectSeq(answers,
                      LAMBDA a : /\ "feedback" \in DOMAIN a
                                 /\ a.feedback.score \in 0..10)
    IN  IF Len(scored) = 0 THEN 0
        ELSE RoundTenths(SeqSum([i \in 1..Len(scored) |-> scored[i].feedback.score]),
                         Len(scored))

\* get_session: the average_score of its response
average_score(session) == calculate_average_score(session.answers)

\* get_statistics: the has_data of its response
has_data(session) == Len(session.feedback) > 0

\* one session as generate_questions stored it, and nobody answering yet
InitAnswers ==
    /\ MatchIdle
    /\ AiIdle
    /\ NormIdle
    /\ ScanIdle
    /\ ReqIdle
    /\ VocIdle
    /\ PipeIdle
    /\ \E n \in 1..MaxQuestions : interview_sessions = (TheSession :> NewSession(1, n))
    /\ gen_pc = <<>>
    /\ gen_session_id = <<>>
    /\ gen_questions = <<>>
    /\ sub_pc = [s \in Submitters |-> "idle"]
    /\ sub_current_q = [s \in Submitters |-> 0]
    /\ submits_started = 0
    /\ responses = <<>>

\* submit_answer up to its await: an empty answer and an index past the
\* last question end the call with an HTTP 400 error; otherwise the answer
\* is appended for the question at current_q and the evaluation is awaited
record_answer(s) ==
    /\ sub_pc[s] = "idle"
    /\ submits_started < MaxSubmits
    /\ submits_started' = submits_started + 1
    /\ LET session == interview_sessions[TheSession]
           current_q == session.current_question_index
       IN  \E answer \in {"", "text"} :
              IF answer = "" \/ current_q >= session.questions
              THEN UNCHANGED <<interview_sessions, sub_pc, sub_current_q>>
              ELSE /\ interview_sessions' =
                        [interview_sessions EXCEPT ![TheSession].answers =
                            Append(@, [question |-> current_q, answer |-> s])]
                   /\ sub_current_q' = [sub_current_q EXCEPT ![s] = current_q]
                   /\ sub_pc' = [sub_pc EXCEPT ![s] = "evaluating"]
    /\ UNCHANGED <<others_sess, gen_pc, gen_session_id, gen_questions, responses>>

\* the evaluation comes back: the feedback dictionary is built for the
\* response, the index of the session is advanced by one, and the call
\* returns; nothing is appended to the feedback list of the session
return_feedback(s) ==
    /\ sub_pc[s] = "evaluating"
    /\ \E evaluation \in Evaluations :
          responses' = Append(responses, FeedbackScore(evaluation))
    /\ interview_sessions' =
          [interview_sessions EXCEPT ![TheSession].current_question_index = @ + 1]
    /\ sub_pc' = [sub_pc EXCEPT ![s] = "idle"]
    /\ UNCHANGED <<others_sess, gen_pc, gen_session_id, gen_questions, sub_current_q,
                   submits_started>>

NextAnswers ==
    \/ \E s \in Submitters : record_answer(s)
    \/ \E s \in Submitters : return_feedback(s)

SpecAnswers == InitAnswers /\ [][NextAnswers]_vars

\* ------------------------------------------------------------------------
\* Properties of the scorer
\* ------------------------------------------------------------------------

\* the normalized skills of category c of a dictionary; none when absent
SkillsOf(d, c) == IF c \in DOMAIN d THEN normalize_skills(d[c].items) ELSE {}

\* the number of required skills, pooled over the categories
PooledRequired(job) ==
    Cardinality(SkillsOf(job, "skills")) + Cardinality(SkillsOf(job, "technologies"))
        + Cardinality(SkillsOf(job, "soft_skills"))

\* the number of required skills the candidate has in the same category
PooledMatched(job, cv) ==
    Cardinality(SkillsOf(job, "skills") \cap SkillsOf(cv, "skills"))
        + Cardinality(SkillsOf(job, "technologies") \cap SkillsOf(cv, "technologies"))
        + Cardinality(SkillsOf(job, "soft_skills") \cap SkillsOf(cv, "soft_skills"))

\* job {technologies: [python, react], soft_skills: [communication]} against
\* candidate {technologies: [python, docker]}, with p, r, d for python, react
\* (and communication) and docker
ExampleJob ==
    ("technologies" :> List(<<Str(<<"p">>), Str(<<"r">>)>>))
        @@ ("soft_skills" :> List(<<Str(<<"r">>)>>))
ExampleCv == ("technologies" :> List(<<Str(<<"p">>), Str(<<"d">>)>>))

\* C1: with at least one required skill the score is 100 * total_matched /
\* total_required, pooled over the categories and rounded to the nearest
\* hundredth; the example scores 33.33
C1_PooledPercentage ==
    pc = "done" =>
        LET required == PooledRequired(job_skills)
            d == match_score * required - 10000 * PooledMatched(job_skills, cv_skills)
        IN  /\ required > 0 => (2 * d <= required /\ -2 * d <= required)
            /\ (job_skills = ExampleJob /\ cv_skills = ExampleCv) => match_score = 3333

\* the example has been scored: pooled 1 of 3, where the mean of the
\* categories' percentages (50 and 0) is 25
C1_Witness ==
    /\ pc = "done"
    /\ job_skills = ExampleJob
    /\ cv_skills = ExampleCv
    /\ match_score = 3333

\* C2: the score lies in [0, 100], and total_matched never exceeds
\* total_required
C2_ScoreInRange ==
    pc = "done" =>
        /\ 0 <= match_score
        /\ match_score <= 10000
        /\ TotalMatched(job_skills, cv_skills) <= TotalRequired(job_skills)

\* a full score for a candidate who lists, in some category, more entries
\* than the job requires skills
C2_Witness ==
    /\ pc = "done"
    /\ match_score = 10000
    /\ \E c \in DOMAIN job_skills \cap DOMAIN cv_skills :
          /\ SkillsOf(job_skills, c) # {}
          /\ Len(cv_skills[c].items) > Cardinality(SkillsOf(job_skills, c))

\* C3: a job without any required skill scores 0 against every candidate
C3_NoRequiredSkillScoresZero ==
    (pc = "done" /\ PooledRequired(job_skills) = 0) => match_score = 0

\* a job whose only entries normalize to nothing, scored against a
\* candidate who has skills in that category
C3_Witness ==
    /\ pc = "done"
    /\ PooledRequired(job_skills) = 0
    /\ match_score = 0
    /\ \E c \in DOMAIN job_skills \cap DOMAIN cv_skills :
          job_skills[c].items # <<>> /\ SkillsOf(cv_skills, c) # {}

\* the candidate's skills include the job's, category by category
CandidateCoversJob ==
    \A c \in Categories : SkillsOf(job_skills, c) \subseteq SkillsOf(cv_skills, c)

\* C4 as stated: a candidate who covers the job in every category scores 100
C4_Original ==
    (pc = "done" /\ CandidateCoversJob) => match_score = 10000

\* C4: a candidate who covers the job in every category scores 100 when the
\* job requires at least one skill, and 0 when it requires none
C4_CoveringCandidateScores100 ==
    (pc = "done" /\ CandidateCoversJob) =>
        match_score = IF PooledRequired(job_skills) > 0 THEN 10000 ELSE 0

\* a covering candidate for a job that requires skills in two categories
C4_Witness ==
    /\ pc = "done"
    /\ CandidateCoversJob
    /\ match_score = 10000
    /\ Cardinality({c \in Categories : SkillsOf(job_skills, c) # {}}) >= 2

\* the candidate with skill e added to category c
WithSkill(cv, c, e) ==
    IF c \in DOMAIN cv THEN [cv EXCEPT ![c] = List(@.items \o <<e>>)]
    ELSE (c :> List(<<e>>)) @@ cv

\* C5: an empty category added to the job, and a skill added to the
\* candidate in a category in which the job requires nothing, leave the
\* score as it is
C5_UnrequiredCategoriesIgnored ==
    pc = "done" =>
        /\ \A c \in Categories \ DOMAIN job_skills :
              calculate_match_score((c :> List(<<>>)) @@ job_skills, cv_skills)
                  = match_score
        /\ \A c \in Categories :
              SkillsOf(job_skills, c) = {} =>
                  \A e \in Range(CvPool) :
                      calculate_match_score(job_skills, WithSkill(cv_skills, c, e))
                          = match_score

\* a partial match in which the job lacks one category, has another one
\* empty, and the candidate has a skill the job requires elsewhere in a
\* category in which the job requires nothing
C5_Witness ==
    /\ pc = "done"
    /\ 0 < match_score /\ match_score < 10000
    /\ Categories \ DOMAIN job_skills # {}
    /\ \E c \in Categories, b \in Categories :
          /\ SkillsOf(job_skills, c) = {}
          /\ SkillsOf(cv_skills, c) \cap SkillsOf(job_skills, b) # {}
          /\ ~(SkillsOf(job_skills, b) \subseteq SkillsOf(cv_skills, b))

\* ------------------------------------------------------------------------
\* Properties of the suggestion generator
\* ------------------------------------------------------------------------

\* C8: generate_improvement_suggestions returns at most 5 cards
C8_AtMostFiveCards ==
    pc = "done" => Len(suggestions) <= 5

\* a request that gets five cards
C8_Witness ==
    pc = "done" /\ Len(suggestions) = 5

\* C9: the returned list holds the profile_enhancement card, with the same
\* five items whatever the input, so the list is never empty
C9_ProfileEnhancementAlwaysPresent ==
    pc = "done" =>
        /\ suggestions # <<>>
        /\ \E i \in 1..Len(suggestions) :
              /\ suggestions[i].id = "profile_enhancement"
              /\ suggestions[i].items =
                    << Item(<<"Add project examples">>, "suggest"),
                       Item(<<"Include specific achievements">>, "suggest"),
                       Item(<<"Highlight relevant experience">>, "suggest"),
                       Item(<<"Add metrics to quantify impact">>, "suggest"),
                       Item(<<"Include relevant certifications">>, "suggest") >>

\* the four other cards are present and profile_enhancement is the fifth
C9_Witness ==
    /\ pc = "done"
    /\ Len(suggestions) = 5
    /\ suggestions[5].id = "profile_enhancement"
    /\ \A i \in 1..4 : suggestions[i].id # "profile_enhancement"

\* the order in which the cards are built
CardRank(id) ==
    CASE id = "missing_skills" -> 1
      [] id = "skills_to_highlight" -> 2
      [] id = "matching_skills" -> 3
      [] id = "skills_to_learn" -> 4
      [] id = "profile_enhancement" -> 5

\* the priority the claim gives each card
CardPriority(id) ==
    CASE id \in {"missing_skills", "skills_to_highlight"} -> 1
      [] id \in {"matching_skills", "skills_to_learn"} -> 2
      [] id = "profile_enhancement" -> 3

\* C10: the returned cards are in non-decreasing priority and, among equal
\* priorities, in the order in which they are built
C10_OrderedByPriority ==
    pc = "done" =>
        /\ \A i \in 1..Len(suggestions) :
              suggestions[i].priority = CardPriority(suggestions[i].id)
        /\ \A i \in 1..Len(suggestions), j \in 1..Len(suggestions) :
              i < j => /\ suggestions[i].priority <= suggestions[j].priority
                       /\ CardRank(suggestions[i].id) < CardRank(suggestions[j].id)

\* all five cards, two of priority 1, two of priority 2 and one of priority 3
C10_Witness ==
    /\ pc = "done"
    /\ [i \in 1..Len(suggestions) |-> suggestions[i].priority] = <<1, 1, 2, 2, 3>>
    /\ [i \in 1..Len(suggestions) |-> suggestions[i].id] =
          <<"missing_skills", "skills_to_highlight", "matching_skills",
            "skills_to_learn", "profile_enhancement">>

\* the cards of the returned list with a given id
CardsOf(s, id) == SelectSeq(s, LAMBDA card : card.id = id)

\* the texts of the items of a card
ItemTexts(card) == [i \in 1..Len(card.items) |-> card.items[i].text]

\* the lowercased skills of a dictionary, over all its categories
AllLower(d) == UNION {LowerSet(d, c) : c \in Categories}

\* the job's skills, over all categories, that the candidate has in none
PooledMissing(job, cv) == AllLower(job) \ AllLower(cv)

\* C11: the missing_skills card lists skills of (the job's skills over all
\* categories) minus (the candidate's skills over all categories), each at
\* most once, and is there exactly when that set is not empty
C11_MissingFromPooledDifference ==
    pc = "done" =>
        LET cards == CardsOf(suggestions, "missing_skills")
            pooled == PooledMissing(job_skills, cv_skills)
        IN  /\ (cards # <<>>) <=> (pooled # {})
            /\ \A k \in 1..Len(cards) :
                  LET texts == ItemTexts(cards[k]) IN
                  /\ Range(texts) \subseteq pooled
                  /\ \A i \in 1..Len(texts), j \in 1..Len(texts) :
                        texts[i] = texts[j] => i = j

\* C12: the missing_skills card holds all the missing skills when they are
\* at most 10, and 10 of them otherwise
C12_MissingTruncatedToTen ==
    pc = "done" =>
        LET miss == CardsOf(suggestions, "missing_skills")
            pooled == PooledMissing(job_skills, cv_skills)
            n == Cardinality(pooled)
        IN  n > 0 =>
              /\ Len(miss) = 1
              /\ Range(ItemTexts(miss[1])) \subseteq pooled
              /\ Len(miss[1].items) = IF n <= 10 THEN n ELSE 10

\* C13: the returned list is a function of the two dictionaries: it is the
\* only list generate_improvement_suggestions can return for them
C13_Deterministic ==
    pc = "done" =>
        generate_improvement_suggestions(job_skills, cv_skills) = {suggestions}

\* the job's skills the candidate lacks in the same category
MissingIn(job, cv, c) == LowerSet(job, c) \ LowerSet(cv, c)

WithMalformedEmptied(d) ==
    [c \in DOMAIN d |-> IF d[c].kind = "list" THEN d[c] ELSE List(<<>>)]

\* calculate_match_score takes a category that is not a list as empty
ScoreTakesMalformedAsEmpty ==
    pc \in {"done", "failed"} =>
        match_score = calculate_match_score(WithMalformedEmptied(job_skills),
                                            WithMalformedEmptied(cv_skills))

\* C19: a category that is not a list, in the job's or in the candidate's
\* dictionary, counts as an empty one: the request does not fail, and the
\* score and the suggestions are those of the dictionaries with that
\* category emptied
C19_MalformedTreatedAsEmpty ==
    pc \in {"done", "failed"} =>
        /\ pc = "done"
        /\ match_score = calculate_match_score(WithMalformedEmptied(job_skills),
                                               WithMalformedEmptied(cv_skills))
        /\ suggestions \in
              generate_improvement_suggestions(WithMalformedEmptied(job_skills),
                                               WithMalformedEmptied(cv_skills))

\* ------------------------------------------------------------------------
\* Properties of the normalizer
\* ------------------------------------------------------------------------

\* C17: normalizing the set normalize_skills returned gives that set again
C17_Idempotent ==
    norm_pc = "renormalized" => norm_again = norm_output

\* a list whose entries all change under normalization, normalized twice
C17_Witness ==
    /\ norm_pc = "renormalized"
    /\ norm_output # {}
    /\ norm_again = norm_output
    /\ \A i \in 1..Len(norm_input) : norm_input[i].chars \notin norm_output

\* the uppercase letters of the model
IsUpper(c) == c \in {"P", "C", "R", "D"}

\* a non-empty string without uppercase letter, without whitespace at its
\* ends, and whose only whitespace is single blanks
IsNormalized(m) ==
    /\ m # <<>>
    /\ \A i \in 1..Len(m) : ~IsUpper(m[i]) /\ m[i] # "\t"
    /\ m[1] # " " /\ m[Len(m)] # " "
    /\ \A i \in 1..(Len(m) - 1) : ~(m[i] = " " /\ m[i + 1] = " ")

\* the lowercased words of a string: equal for two strings that differ only
\* in case or whitespace
Words(chars) == split(lower(chars))

\* C18: every member of the returned set is normalized; the members are
\* those of the string entries that hold a word, one member for all the
\* entries that differ only in case or whitespace, and nothing comes of the
\* entries that are not strings or hold no word
C18_MembersNormalized ==
    norm_pc \in {"normalized", "renormalized"} =>
        LET named == {e \in Range(norm_input) : e.str /\ Words(e.chars) # <<>>} IN
        /\ \A m \in norm_output : IsNormalized(m)
        /\ \A m \in norm_output : \E e \in named : Words(e.chars) = Words(m)
        /\ \A e \in named : \E m \in norm_output : Words(e.chars) = Words(m)
        /\ \A m1 \in norm_output, m2 \in norm_output :
              Words(m1) = Words(m2) => m1 = m2

\* two different entries that differ only in case and whitespace gave one
\* member
C18_Witness ==
    /\ norm_pc = "normalized"
    /\ Cardinality(norm_output) = 1
    /\ \E i \in 1..Len(norm_input), j \in 1..Len(norm_input) :
          /\ norm_input[i].str /\ norm_input[j].str
          /\ norm_input[i].chars # norm_input[j].chars
          /\ \E k \in 1..Len(norm_input[i].chars) : norm_input[i].chars[k] = "\t"
          /\ Words(norm_input[i].chars) = Words(norm_input[j].chars)

\* ------------------------------------------------------------------------
\* Properties of the score interpreter
\* ------------------------------------------------------------------------

\* the tier the claims give a score, in hundredths
TierOf(score) ==
    IF score < 5000 THEN "low" ELSE IF score < 8000 THEN "medium" ELSE "high"

\* C15: the message returned for a score is a message of exactly the tier of
\* the score: low below 50, medium from 50 and below 80, high from 80
C15_TierByThresholds ==
    pc = "interpreted" =>
        /\ score_interpretation.tier \in Tiers
        /\ score_interpretation.tier = TierOf(match_score)

\* the score 50 got a message of the medium tier
C15_Witness ==
    /\ pc = "interpreted"
    /\ match_score = 5000
    /\ score_interpretation.tier = "medium"

\* the locale file of a language is loaded and holds a text for the tier
HasText(loc, tier, lang) ==
    lang \in DOMAIN loc /\ loc[lang].loaded /\ loc[lang].values[tier] = "text"

\* the locale file of a language is loaded and holds the key of the tier
HasEntry(loc, tier, lang) ==
    lang \in DOMAIN loc /\ loc[lang].loaded /\ loc[lang].values[tier] # "absent"

\* C16 as stated: the result is never the translation key, and it is the
\* default English message of the tier whenever the translations have no
\* entry for the tier in the requested language
C16_Original ==
    pc = "interpreted" =>
        /\ score_interpretation.kind \in {"default", "text", "other"}
        /\ ~HasEntry(locales, TierOf(match_score), language) =>
              score_interpretation = DefaultMessage(TierOf(match_score))

\* C16: the result is never the translation key; it is the default English
\* message of the tier when neither the requested language nor English has
\* an entry for the tier, and the English translation when the requested
\* language has no entry and English has a text
C16_DefaultWhenNoTranslation ==
    pc = "interpreted" =>
        LET t == TierOf(match_score) IN
        /\ score_interpretation.kind \in {"default", "text", "other"}
        /\ (~HasEntry(locales, t, language) /\ ~HasEntry(locales, t, "en")) =>
              score_interpretation = DefaultMessage(t)
        /\ (~HasEntry(locales, t, language) /\ HasText(locales, t, "en")) =>
              score_interpretation = LocaleText(t, "en")

\* both locale files are loaded, neither has the key of the tier, and the
\* default message came back
C16_Witness ==
    /\ pc = "interpreted"
    /\ language = "bg"
    /\ locales["bg"].loaded /\ locales["en"].loaded
    /\ ~HasEntry(locales, TierOf(match_score), "bg")
    /\ ~HasEntry(locales, TierOf(match_score), "en")
    /\ score_interpretation = DefaultMessage(TierOf(match_score))

\* ------------------------------------------------------------------------
\* Properties of the deterministic extractor
\* ------------------------------------------------------------------------

\* text[i..] begins with s
OccursAt(text, s, i) ==
    i + Len(s) - 1 <= Len(text) /\ SubSeq(text, i, i + Len(s) - 1) = s

\* the text contains s
Contains(text, s) == \E i \in 1..Len(text) : OccursAt(text, s, i)

\* the text contains s with a word boundary before and after it
ContainsAsWord(text, s) ==
    \E i \in 1..Len(text) :
        /\ OccursAt(text, s, i)
        /\ AtBoundary(text, i - 1)
        /\ AtBoundary(text, i + Len(s) - 1)

\* "Experienced with C++ and Node.js"
ExampleSentence ==
    << "E", "x", "p", "e", "r", "i", "e", "n", "c", "e", "d", " ",
       "w", "i", "t", "h", " ", "C", "+", "+", " ", "a", "n", "d", " ",
       "N", "o", "d", "e", ".", "j", "s" >>

\* the example yields both c++ and node.js
ExampleYieldsBoth ==
    {Cpp, NodeJs} \subseteq Range(extract_skills_from_text(ExampleSentence))

\* C20 as stated: every skill of the vocabulary that the text contains,
\* whatever the case, is in the returned list, lowercased
C20_Original ==
    scan_pc = "done" =>
        /\ \A k \in 1..Len(SkillsDatabase) :
              Contains(lower(scan_text), lower(SkillsDatabase[k])) =>
                  lower(SkillsDatabase[k]) \in Range(found_skills)
        /\ ExampleYieldsBoth

\* C20: a skill of the vocabulary is in the returned list, lowercased, when
\* it has a special case and the text contains it, and when it has none and
\* the text contains it between two word boundaries; the example yields
\* both c++ and node.js
C20_VerbatimSkillFound ==
    scan_pc = "done" =>
        /\ \A k \in 1..Len(SkillsDatabase) :
              LET S == lower(SkillsDatabase[k]) IN
              (IF S \in DOMAIN SpecialCases
               THEN Contains(lower(scan_text), S)
               ELSE ContainsAsWord(lower(scan_text), S)) =>
                  S \in Range(found_skills)
        /\ ExampleYieldsBoth

\* "C++" was scanned and c++ was found
C20_Witness ==
    /\ scan_pc = "done"
    /\ scan_text = <<"C", "+", "+">>
    /\ Cpp \in Range(found_skills)

\* ------------------------------------------------------------------------
\* Properties of the generative extractor adapter
\* ------------------------------------------------------------------------

\* the call of extract_skills has ended
ExtractionEnded == ai_pc \in {"returned", "raised"}

\* the generative strategy failed: no client, an error of the call, a
\* malformed answer, or an answer without any skill
AllEmpty(response) ==
    /\ response.kind \in {"array", "object"}
    /\ \A k \in ResponseKeys : Parsed(response)[k].items = <<>>

\* the skills a returned dictionary holds
SkillsIn(result) == UNION {Range(result[c].items) : c \in Categories}

\* C6: skill extraction never raises to its caller; it ends by returning a
\* dictionary of three lists
C6_ExtractionNeverRaises ==
    ExtractionEnded =>
        /\ ai_pc = "returned"
        /\ \A c \in Categories : ai_result[c].kind = "list"

\* C7: when the external call errors or answers without any skill, the
\* adapter returns what the deterministic extractor finds in the same text
C7_FallbackIdentical ==
    (ExtractionEnded /\ (ai_response.kind = "error" \/ AllEmpty(ai_response))) =>
        /\ ai_pc = "returned"
        /\ SkillsIn(ai_result) = Range(extract_skills_from_text(ai_text))

\* C21: one extraction sends at most one request to the external service
C21_AtMostOneRequest == ai_requests <= 1

\* C22: when the external service never answers, the extraction still
\* ends, and it ends by returning what the deterministic extractor finds
C22_SilentCollaboratorFallsBack ==
    /\ ai_pc # "hung"
    /\ ai_response = Silent =>
          /\ ai_pc = "returned"
          /\ SkillsIn(ai_result) = Range(extract_skills_from_text(ai_text))

\* every category of the dictionary is a list of normalized strings
ListsOfNormalized(d) ==
    \A c \in DOMAIN d :
        /\ d[c].kind = "list"
        /\ \A e \in Range(d[c].items) : e.str /\ IsNormalized(e.chars)

C24_VocabularyLoadedOnce ==
    /\ vocabulary_loads = 1
    /\ Cardinality(vocabularies_seen) <= 1

\* ------------------------------------------------------------------------
\* Properties of the dictionaries of job_match
\* ------------------------------------------------------------------------

\* the members of a list are normalized and all different
NormalizedAndUnique(l) ==
    /\ \A i \in 1..Len(l) : IsNormalized(l[i])
    /\ \A i, j \in 1..Len(l) : l[i] = l[j] => i = j

\* C25: the job dictionary and the candidate dictionary that job_match
\* hands to the scorer hold, in every category, only lowercase,
\* whitespace-collapsed, non-empty members, each once
C25_DictionariesNormalized ==
    /\ pipe_pc \in {"extracted", "done"} =>
          \A c \in Categories : NormalizedAndUnique(extracted_job_skills[c])
    /\ pipe_pc = "done" =>
          \A c \in Categories : NormalizedAndUnique(assembled_cv_skills[c])

\* the names of the strategies that ran, in their order
StrategyNames == [i \in 1..Len(strategies_run) |-> strategies_run[i].name]

StoredCalls == {c \in DOMAIN gen_pc : gen_pc[c] = "stored"}

C30_FeedbackRecorded ==
    (/\ responses # <<>>
     /\ \A s \in DOMAIN sub_pc : sub_pc[s] = "idle") =>
        \A id \in DOMAIN interview_sessions :
            LET session == interview_sessions[id] IN
            /\ Len(session.feedback) = Len(session.answers)
            /\ has_data(session)
            /\ average_score(session) = RoundTenths(SeqSum(responses), Len(responses))

====
